---- MODULE Spec2Model ----
(***************************************************************************)
(* Model of github-issue-analyzer (src/index.ts): the /scan handler, which *)
(* pages through the upstream issue listing and writes it through to the   *)
(* SQLite tables issues and repo_scans, and the /analyze handler, which    *)
(* builds a bounded context buffer from the cached issues.                 *)
(*                                                                         *)
(* Text values (title, body, context) are sequences of one-character       *)
(* strings.  Timestamps are integers; the ISO-8601 strings the program     *)
(* stores have a fixed width, so their text order is the integer order.    *)
(***************************************************************************)
EXTENDS Integers, Sequences, FiniteSets, TLC

\* ------------------------------------------------------------ constants

\* per_page=100 in the request url
PER_PAGE == 100

\* const MAX_PAGES = 10
MAX_PAGES == 10

\* const MAX_CHARS = 12000
MAX_CHARS == 12000

\* row.body.slice(0, 200)
BODY_SLICE == 200

\* ------------------------------------------------------------ bounds

\* /scan invocations a behaviour may start.
MaxScans == 3

\* /analyze invocations a behaviour may start.
MaxAnalyze == 1

\* Upstream changes (new issues, edits) a behaviour may see.
MaxEnv == 1

\* The clock value at the start; the records of the initial listings were
\* created before it.
Epoch == 2000

Repos == {"octo/app", "octo/lib"}

Procs == {1, 2}

\* ------------------------------------------------------------ text

Digit(d) == CASE d = 0 -> "0" [] d = 1 -> "1" [] d = 2 -> "2" [] d = 3 -> "3"
              [] d = 4 -> "4" [] d = 5 -> "5" [] d = 6 -> "6" [] d = 7 -> "7"
              [] d = 8 -> "8" [] d = 9 -> "9"

\* `${row.number}`: the decimal digits of a non-negative integer
RECURSIVE NumberText(_)
NumberText(n) == IF n < 10 THEN <<Digit(n)>>
                 ELSE NumberText(n \div 10) \o <<Digit(n % 10)>>

\* a text of n copies of the character c
Fill(n, c) == [i \in 1..n |-> c]

\* the characters the regular expression class \s matches (of those used)
IsSpace(c) == c \in {" ", "\n", "\t"}

\* String.prototype.slice(0, n)
Slice(s, n) == SubSeq(s, 1, IF Len(s) < n THEN Len(s) ELSE n)

\* .replace(/\s+/g, " "): every maximal run of whitespace becomes one space
Collapse(s) ==
    LET first == SelectSeq([i \in 1..Len(s) |-> i],
                           LAMBDA i : ~IsSpace(s[i]) \/ i = 1 \/ ~IsSpace(s[i - 1]))
    IN  [k \in 1..Len(first) |-> IF IsSpace(s[first[k]]) THEN " " ELSE s[first[k]]]

\* JSON null, the body of an issue that has no description
NullBody == <<"null">>

\* i.body || ""
BodyOrEmpty(b) == IF b = NullBody \/ b = <<>> THEN <<>> ELSE b

\* ------------------------------------------------------------ state

VARIABLES
    issues,     \* table issues: a set of rows; PRIMARY KEY (repo, id)
    scans,      \* table repo_scans: a set of rows; repo is the PRIMARY KEY
    scan,       \* the /scan invocations: each slot's local variables and position
    analyze,    \* the /analyze invocation: its local variables and position
    upstream,   \* the issue tracker: per repo, its records in creation order
    clock,      \* the wall clock, new Date()
    used        \* how many /scan and /analyze requests and upstream changes so far

vars == <<issues, scans, scan, analyze, upstream, clock, used>>

\* ------------------------------------------------------------ upstream

RepoIndex(r) == IF r = "octo/app" THEN 1 ELSE 2

\* the tracker's identifiers are unique over all repositories, its numbers
\* only within one
IdOf(r, number) == RepoIndex(r) * 10000 + number

ShortTitle == <<"b", "u", "g">>

EditedTitle == <<"f", "i", "x">>

\* a listing of n records created at times 1..n, newest last
Listing(n, prs, titles, bodies) ==
    [i \in 1..n |-> [number |-> i, pull_request |-> i \in prs,
                     title |-> titles[i], body |-> bodies[i],
                     created_at |-> i, updated_at |-> i, open |-> TRUE]]

Plain(n, prs) == Listing(n, prs, [i \in 1..n |-> ShortTitle], [i \in 1..n |-> NullBody])

\* the listings the first repository may start with: empty, one page with
\* pull requests, several pages, a full first page that holds a pull request,
\* and more than MAX_PAGES pages
Listings ==
    { Plain(0, {}),
      Plain(10, {2, 5, 9}),
      Plain(250, {}),
      Plain(150, {120}),
      Plain(1500, {}) }

\* one record of the response of GET /repos/{repo}/issues
ApiRecord(r, x) ==
    [id |-> IdOf(r, x.number), number |-> x.number, title |-> x.title,
     body |-> x.body, html_url |-> <<r, x.number>>, created_at |-> x.created_at,
     pull_request |-> x.pull_request]

\* GET /repos/{repo}/issues?state=open&per_page=100&page=..&sort=created
\*   &direction=desc[&since=..]: the open records (since: those updated at or
\* after it), newest first, cut into pages of per_page
ApiPage(up, r, since, page) ==
    LET sel == SelectSeq(up[r],
                   LAMBDA x : x.open /\ (since = <<>> \/ x.updated_at >= since[1]))
        top == Len(sel) - (page - 1) * PER_PAGE
        cnt == IF top <= 0 THEN 0 ELSE IF top < PER_PAGE THEN top ELSE PER_PAGE
    IN  [i \in 1..cnt |-> ApiRecord(r, sel[top - i + 1])]

\* ------------------------------------------------------------ Issue Store

\* the key of a table issues declared with PRIMARY KEY (repo), as repo_scans is
KeyRepoOnly(x) == <<x.repo>>

\* PRIMARY KEY (repo, id)
Key(x) == <<x.repo, x.id>>

\* an insert that deletes nothing: INSERT without OR REPLACE on a table without
\* its primary key
Append2(tbl, new) == tbl \cup new

\* INSERT OR REPLACE INTO issues, for rows of distinct keys: a stored row of
\* the key of a new row is deleted, the new rows are inserted
Replace(tbl, new) ==
    LET keys == {Key(y) : y \in new}
    IN  {x \in tbl : Key(x) \notin keys} \cup new

\* insert.run(issue)
InsertOrReplace(tbl, row) == Replace(tbl, {row})

\* the table that inserting rows[lo..hi] in order into an empty table gives
\* (the range is halved; a later row of a key replaces an earlier one)
RECURSIVE Batch(_, _, _)
Batch(rows, lo, hi) ==
    IF lo = hi THEN InsertOrReplace({}, rows[lo])
    ELSE LET mid == (lo + hi) \div 2
         IN  Replace(Batch(rows, lo, mid), Batch(rows, mid + 1, hi))

\* a transaction that first deletes the rows of the repository (a mirror of the
\* fetched page instead of a cache)
TxMirror(tbl, rows) ==
    IF rows = <<>> THEN tbl
    ELSE {x \in tbl : x.repo # rows[1].repo} \cup Batch(rows, 1, Len(rows))

\* db.transaction(issues => { for (const issue of issues) insert.run(issue) }):
\* every row is inserted, in order, each replacing the stored row of its key
Tx(tbl, rows) == IF rows = <<>> THEN tbl ELSE Replace(tbl, Batch(rows, 1, Len(rows)))

\* filtered.map(i => ({$repo: repo, $id: i.id, ...}))
IssueRow(r, i) ==
    [repo |-> r, id |-> i.id, number |-> i.number, title |-> i.title,
     body |-> BodyOrEmpty(i.body), html_url |-> i.html_url,
     created_at |-> i.created_at]

\* the rows of one repository
RowsOf(tbl, r) == {x \in tbl : x.repo = r}

\* the count without WHERE repo = $repo
CountAll(tbl, r) == Cardinality(tbl)

\* SELECT COUNT(*) as cnt FROM issues WHERE repo = $repo
CountIssues(tbl, r) == Cardinality(RowsOf(tbl, r))

\* INSERT OR REPLACE INTO repo_scans (repo, last_scanned_at, total_issues)
PutScanState(tbl, r, now, total) ==
    {x \in tbl : x.repo # r}
        \cup {[repo |-> r, last_scanned_at |-> now, total_issues |-> total]}

\* SELECT last_scanned_at FROM repo_scans WHERE repo = $repo, .get(): the
\* selected column of the row, as a sequence of one element, or of none
\* (undefined)
GetScanState(tbl, r) ==
    IF RowsOf(tbl, r) = {} THEN <<>>
    ELSE <<[last_scanned_at |-> (CHOOSE x \in RowsOf(tbl, r) : TRUE).last_scanned_at]>>

\* ------------------------------------------------------------ /scan

\* the response sent to the caller; answered is the upstream status it reports
\* (404 "Repository not found", or the status in error.message)
NoResult == [code |-> 0, answered |-> 0, status |-> "", new_fetched |-> 0,
             issues_fetched |-> 0, last_scanned_at |-> 0]

\* a slot that has handled no request.  requests, upserted and cached record
\* the invocation's history: the page requests it sent, the ids it passed to
\* the insert, and the ids its repository had cached when it started
Idle == [pc |-> "idle", repo |-> "", scanRow |-> <<>>, isFirstScan |-> FALSE,
         sinceParam |-> <<>>, newIssues |-> 0, page |-> 0, hasMore |-> FALSE,
         res |-> NoResult, requests |-> 0, upserted |-> {}, cached |-> {}]

\* the loop without its page cap: while (hasMore)
LoopConditionNoCap(hasMore, page) == hasMore

\* while (hasMore && page <= MAX_PAGES)
LoopCondition(hasMore, page) == hasMore /\ page <= MAX_PAGES

\* hasMore = filtered.length === 100
FullPage(filtered) == Len(filtered) = PER_PAGE

\* const status = isFirstScan ? "first_scan" : newIssues > 0 ? "updated" : "no_changes"
Status(isFirstScan, newIssues) ==
    IF isFirstScan THEN "first_scan"
    ELSE IF newIssues > 0 THEN "updated" ELSE "no_changes"

\* the baseline read of a scan that never sends since
BaselineNoSince(tbl, stored, r) ==
    LET scanRow == GetScanState(stored, r)
    IN  [Idle EXCEPT !.pc = "fetch", !.repo = r, !.scanRow = scanRow,
                     !.isFirstScan = (scanRow = <<>>), !.sinceParam = <<>>,
                     !.newIssues = 0, !.page = 1, !.hasMore = TRUE, !.requests = 1,
                     !.cached = {x.id : x \in RowsOf(tbl, r)}]

\* lines 68-91: the baseline read and the initial values of the locals
Baseline(tbl, stored, r) ==
    LET scanRow == GetScanState(stored, r)
    IN  [Idle EXCEPT !.pc = "fetch", !.repo = r, !.scanRow = scanRow,
                     !.isFirstScan = (scanRow = <<>>),
                     !.sinceParam = IF scanRow # <<>>
                                    THEN <<scanRow[1].last_scanned_at>>
                                    ELSE <<>>,
                     !.newIssues = 0, !.page = 1, !.hasMore = TRUE,
                     !.requests = 1,
                     !.cached = {x.id : x \in RowsOf(tbl, r)}]

\* POST /scan up to the first await: the baseline read and the request for
\* page 1.  A request is handled in the first slot that holds no running
\* invocation; the slot keeps the response of its last invocation until then.
ScanStart(p, r) ==
    /\ scan[p].pc # "fetch"
    /\ \A q \in Procs : q < p => scan[q].pc = "fetch"
    /\ used.scans < MaxScans
    /\ used' = [used EXCEPT !.scans = @ + 1]
    /\ scan' = [scan EXCEPT ![p] = Baseline(issues, scans, r)]
    /\ UNCHANGED <<issues, scans, analyze, upstream, clock>>

\* a loop body that keeps the page for one write after the loop, which is left
\* out when the loop does not end
PageBodyBuffered(s, tbl, data) ==
    LET filtered == SelectSeq(data, LAMBDA i : ~i.pull_request)
    IN  IF Len(filtered) = 0
        THEN [issues |-> tbl, newIssues |-> s.newIssues, hasMore |-> FALSE,
              page |-> s.page, upserted |-> s.upserted]
        ELSE [issues |-> tbl,
              newIssues |-> s.newIssues + Len(filtered),
              hasMore |-> FullPage(filtered),
              page |-> s.page + 1,
              upserted |-> s.upserted \cup {filtered[k].id : k \in 1..Len(filtered)}]

\* the loop body without the filter on pull_request
PageBodyNoFilter(s, tbl, data) ==
    LET rows == [k \in 1..Len(data) |-> IssueRow(s.repo, data[k])]
    IN  IF Len(data) = 0
        THEN [issues |-> tbl, newIssues |-> s.newIssues, hasMore |-> FALSE,
              page |-> s.page, upserted |-> s.upserted]
        ELSE [issues |-> Tx(tbl, rows),
              newIssues |-> s.newIssues + Len(data),
              hasMore |-> FullPage(data),
              page |-> s.page + 1,
              upserted |-> s.upserted \cup {data[k].id : k \in 1..Len(data)}]

\* the loop body after a response 200 (lines 111-144): the local variables
\* and the table issues after it
PageBody(s, tbl, data) ==
    LET filtered == SelectSeq(data, LAMBDA i : ~i.pull_request)
        rows == [k \in 1..Len(filtered) |-> IssueRow(s.repo, filtered[k])]
    IN  IF Len(filtered) = 0
        THEN [issues |-> tbl, newIssues |-> s.newIssues, hasMore |-> FALSE,
              page |-> s.page, upserted |-> s.upserted]
        ELSE [issues |-> Tx(tbl, rows),
              newIssues |-> s.newIssues + Len(filtered),
              hasMore |-> FullPage(filtered),
              page |-> s.page + 1,
              upserted |-> s.upserted \cup {filtered[k].id : k \in 1..Len(filtered)}]

\* a finalize that writes the metadata row only when issues were fetched
FinalizeSkipEmpty(s, b, stored, now) ==
    LET finalCount == CountIssues(b.issues, s.repo)
    IN  [scans |-> IF b.newIssues = 0 THEN stored
                   ELSE PutScanState(stored, s.repo, now, finalCount),
         res |-> [code |-> 200, answered |-> 200,
                  status |-> Status(s.isFirstScan, b.newIssues),
                  new_fetched |-> b.newIssues,
                  issues_fetched |-> finalCount,
                  last_scanned_at |-> now]]

\* a finalize that adds the tally to the number of rows cached at the start
\* instead of counting again
FinalizeAddTally(s, b, stored, now) ==
    [scans |-> PutScanState(stored, s.repo, now, Cardinality(s.cached) + b.newIssues),
     res |-> [code |-> 200, answered |-> 200,
              status |-> Status(s.isFirstScan, b.newIssues),
              new_fetched |-> b.newIssues,
              issues_fetched |-> Cardinality(s.cached) + b.newIssues,
              last_scanned_at |-> now]]

\* a finalize that reports the tally of the loop as the total
FinalizeTally(s, b, stored, now) ==
    [scans |-> PutScanState(stored, s.repo, now, b.newIssues),
     res |-> [code |-> 200, answered |-> 200,
              status |-> Status(s.isFirstScan, b.newIssues),
              new_fetched |-> b.newIssues,
              issues_fetched |-> b.newIssues,
              last_scanned_at |-> now]]

\* lines 148-174: the count, the metadata row and the response
Finalize(s, b, stored, now) ==
    LET finalCount == CountIssues(b.issues, s.repo)
    IN  [scans |-> PutScanState(stored, s.repo, now, finalCount),
         res |-> [code |-> 200, answered |-> 200,
                  status |-> Status(s.isFirstScan, b.newIssues),
                  new_fetched |-> b.newIssues,
                  issues_fetched |-> finalCount,
                  last_scanned_at |-> now]]

\* the response 200 of the awaited page: filter, write through, then either
\* request the next page or finalize.  new Date() is read in the finalize;
\* every reading of the clock is later than the readings before it.
FetchOk(p) ==
    /\ scan[p].pc = "fetch"
    /\ \E b \in {PageBody(scan[p], issues,
                          ApiPage(upstream, scan[p].repo, scan[p].sinceParam, scan[p].page))} :
         /\ issues' = b.issues
         /\ IF LoopCondition(b.hasMore, b.page)
            THEN /\ scan' = [scan EXCEPT ![p].newIssues = b.newIssues,
                                         ![p].hasMore = b.hasMore,
                                         ![p].page = b.page,
                                         ![p].upserted = b.upserted,
                                         ![p].requests = @ + 1]
                 /\ UNCHANGED <<scans, clock>>
            ELSE \E f \in {Finalize(scan[p], b, scans, clock + 1)} :
                 /\ clock' = clock + 1
                 /\ scans' = f.scans
                 /\ scan' = [scan EXCEPT ![p].newIssues = b.newIssues,
                                         ![p].hasMore = b.hasMore,
                                         ![p].page = b.page,
                                         ![p].upserted = b.upserted,
                                         ![p].pc = "done",
                                         ![p].res = f.res]
    /\ UNCHANGED <<analyze, upstream, used>>

\* a response 404 that leaves the loop with break and falls into the finalize
FetchNotFoundMarks(p) ==
    /\ scan[p].pc = "fetch"
    /\ scan' = [scan EXCEPT ![p].pc = "done",
                            ![p].res = [NoResult EXCEPT !.code = 404, !.answered = 404]]
    /\ clock' = clock + 1
    /\ scans' = PutScanState(scans, scan[p].repo, clock + 1, CountIssues(issues, scan[p].repo))
    /\ UNCHANGED <<issues, analyze, upstream, used>>

\* the response 404: res.status(404), nothing else
FetchNotFound(p) ==
    /\ scan[p].pc = "fetch"
    /\ scan' = [scan EXCEPT ![p].pc = "done",
                            ![p].res = [NoResult EXCEPT !.code = 404, !.answered = 404]]
    /\ UNCHANGED <<issues, scans, analyze, upstream, clock, used>>

\* a failure handled in a finally block that records the scan
FetchFailedMarks(p, status) ==
    /\ scan[p].pc = "fetch"
    /\ status \notin {200, 404}
    /\ scan' = [scan EXCEPT ![p].pc = "done",
                            ![p].res = [NoResult EXCEPT !.code = 500, !.answered = status]]
    /\ clock' = clock + 1
    /\ scans' = PutScanState(scans, scan[p].repo, clock + 1, CountIssues(issues, scan[p].repo))
    /\ UNCHANGED <<issues, analyze, upstream, used>>

\* any other answer: a status below 500 throws in the loop, one from 500 on
\* rejects the await; both end in the catch block, res.status(500)
FetchFailed(p, status) ==
    /\ scan[p].pc = "fetch"
    /\ status \notin {200, 404}
    /\ scan' = [scan EXCEPT ![p].pc = "done",
                            ![p].res = [NoResult EXCEPT !.code = 500, !.answered = status]]
    /\ UNCHANGED <<issues, scans, analyze, upstream, clock, used>>

\* ------------------------------------------------------------ environment

\* k new issues are opened upstream
UpstreamAdd(r, k) ==
    /\ used.env < MaxEnv
    /\ used' = [used EXCEPT !.env = @ + 1]
    /\ clock' = clock + 1
    /\ LET n == Len(upstream[r])
       IN  upstream' = [upstream EXCEPT ![r] = @ \o
               [i \in 1..k |-> [number |-> n + i, pull_request |-> FALSE,
                                title |-> ShortTitle, body |-> NullBody,
                                created_at |-> clock + 1, updated_at |-> clock + 1,
                                open |-> TRUE]]]
    /\ UNCHANGED <<issues, scans, scan, analyze>>

\* the title of record n is edited upstream
UpstreamEdit(r, n) ==
    /\ used.env < MaxEnv
    /\ n \in 1..Len(upstream[r])
    /\ used' = [used EXCEPT !.env = @ + 1]
    /\ clock' = clock + 1
    /\ upstream' = [upstream EXCEPT ![r][n].title = EditedTitle,
                                    ![r][n].updated_at = clock + 1]
    /\ UNCHANGED <<issues, scans, scan, analyze>>

\* issue n is closed upstream: state=open lists it no longer
UpstreamClose(r, n) ==
    /\ used.env < MaxEnv
    /\ n \in 1..Len(upstream[r])
    /\ upstream[r][n].open
    /\ used' = [used EXCEPT !.env = @ + 1]
    /\ clock' = clock + 1
    /\ upstream' = [upstream EXCEPT ![r][n].open = FALSE,
                                    ![r][n].updated_at = clock + 1]
    /\ UNCHANGED <<issues, scans, scan, analyze>>

\* ------------------------------------------------------------ specifications

\* ------------------------------------------------------------ /analyze

\* a handler that has handled no request.  rows is the result of the SELECT,
\* context the buffer sent to the model, llmCalls the completions requested
NoAnalyze == [pc |-> "idle", repo |-> "", rows |-> <<>>, context |-> <<>>,
              code |-> 0, llmCalls |-> 0]

\* the maximum of a non-empty set of integers
Max(S) == CHOOSE m \in S : \A n \in S : n <= m

\* ORDER BY created_at DESC: the sequences that list the rows of a set by
\* falling created_at; rows of equal created_at come in any order
RECURSIVE Orders(_)
Orders(S) ==
    IF S = {} THEN {<<>>}
    ELSE LET top == {x \in S : x.created_at = Max({y.created_at : y \in S})}
         IN  UNION {{<<x>> \o t : t \in Orders(S \ {x})} : x \in top}

\* SELECT number, title, body
Select(ord) ==
    [i \in 1..Len(ord) |-> [number |-> ord[i].number, title |-> ord[i].title,
                            body |-> ord[i].body]]

\* `[ID: #${number}] Title: ${title}\nBody: ${body.slice(0, 200).replace(/\s+/g, " ")}...\n\n`
IssueText(row) ==
    <<"[", "I", "D", ":", " ", "#">> \o NumberText(row.number)
      \o <<"]", " ", "T", "i", "t", "l", "e", ":", " ">> \o row.title
      \o <<"\n", "B", "o", "d", "y", ":", " ">> \o Collapse(Slice(row.body, BODY_SLICE))
      \o <<".", ".", ".", "\n", "\n">>

\* a loop that skips the row that does not fit and goes on (continue)
RECURSIVE BuildContextSkip(_, _, _)
BuildContextSkip(rows, k, context) ==
    IF k > Len(rows) THEN context
    ELSE IF Len(context) + Len(IssueText(rows[k])) > MAX_CHARS
         THEN BuildContextSkip(rows, k + 1, context)
         ELSE BuildContextSkip(rows, k + 1, context \o IssueText(rows[k]))

\* for (const row of rows) { ...; if (context.length + issueText.length >
\* MAX_CHARS) break; context += issueText; } from row k on
RECURSIVE BuildContext(_, _, _)
BuildContext(rows, k, context) ==
    IF k > Len(rows) THEN context
    ELSE IF Len(context) + Len(IssueText(rows[k])) > MAX_CHARS THEN context
         ELSE BuildContext(rows, k + 1, context \o IssueText(rows[k]))

\* a handler without the test rows.length === 0: the model is asked with an
\* empty context
AnalyzeStartNoCheck(r) ==
    /\ analyze.pc # "llm"
    /\ used.analyzes < MaxAnalyze
    /\ used' = [used EXCEPT !.analyzes = @ + 1]
    /\ \E ord \in Orders(RowsOf(issues, r)) : \E rows \in {Select(ord)} :
          analyze' = [NoAnalyze EXCEPT !.pc = "llm", !.repo = r, !.rows = rows,
                                       !.context = BuildContext(rows, 1, <<>>),
                                       !.llmCalls = 1]
    /\ UNCHANGED <<issues, scans, scan, upstream, clock>>

\* POST /analyze up to the await of the completion: the SELECT, the answer 404
\* when it gives no row, else the context and the request to the model
AnalyzeStart(r) ==
    /\ analyze.pc # "llm"
    /\ used.analyzes < MaxAnalyze
    /\ used' = [used EXCEPT !.analyzes = @ + 1]
    /\ \E ord \in Orders(RowsOf(issues, r)) : \E rows \in {Select(ord)} :
          analyze' = IF Len(rows) = 0
                     THEN [NoAnalyze EXCEPT !.pc = "done", !.repo = r, !.code = 404]
                     ELSE [NoAnalyze EXCEPT !.pc = "llm", !.repo = r, !.rows = rows,
                                            !.context = BuildContext(rows, 1, <<>>),
                                            !.llmCalls = 1]
    /\ UNCHANGED <<issues, scans, scan, upstream, clock>>

\* the completion arrives: res.json({ analysis })
AnalyzeOk ==
    /\ analyze.pc = "llm"
    /\ analyze' = [analyze EXCEPT !.pc = "done", !.code = 200]
    /\ UNCHANGED <<issues, scans, scan, upstream, clock, used>>

\* the completion fails: the catch block, res.status(500)
AnalyzeFailed ==
    /\ analyze.pc = "llm"
    /\ analyze' = [analyze EXCEPT !.pc = "done", !.code = 500]
    /\ UNCHANGED <<issues, scans, scan, upstream, clock, used>>

\* ------------------------------------------------------------ behaviours


Init ==
    /\ issues = {}
    /\ scans = {}
    /\ scan = [p \in Procs |-> Idle]
    /\ analyze = NoAnalyze
    /\ \E l \in Listings \ {Plain(1500, {})} :
         upstream = [r \in Repos |-> IF r = "octo/app" THEN l ELSE Plain(2, {1})]
    /\ clock = Epoch
    /\ used = [scans |-> 0, analyzes |-> 0, env |-> 0]

\* one /scan invocation at a time, against a changing upstream
Next ==
    \/ \E r \in Repos : ScanStart(1, r)
    \/ FetchOk(1)
    \/ FetchNotFound(1)
    \/ \E status \in {403, 500} : FetchFailed(1, status)
    \/ \E r \in Repos, k \in {5, 100} : UpstreamAdd(r, k)
    \/ \E r \in Repos : UpstreamEdit(r, 1)

Spec == Init /\ [][Next]_vars

\* the same system against the listing of more than MAX_PAGES pages
InitCap ==
    /\ issues = {}
    /\ scans = {}
    /\ scan = [p \in Procs |-> Idle]
    /\ analyze = NoAnalyze
    /\ upstream = [r \in Repos |-> IF r = "octo/app" THEN Plain(1500, {}) ELSE Plain(2, {1})]
    /\ clock = Epoch
    /\ used = [scans |-> 0, analyzes |-> 0, env |-> 0]

SpecCap == InitCap /\ [][Next]_vars

\* a title of the greatest length the upstream accepts, and one 5 shorter
LongTitle == Fill(256, "t")
Title251 == Fill(251, "t")

\* a body of 300 characters; every tenth character and the one after it are
\* white space (a blank, then a line break)
SpacedBody ==
    [i \in 1..300 |-> IF i % 10 = 0 THEN " " ELSE IF i % 10 = 1 /\ i > 1 THEN "\n" ELSE "b"]

\* a body of 300 characters without white space
DenseBody == Fill(300, "x")

\* the listings of the behaviours with /analyze: none; 10 short records of
\* which 3 are pull requests; 30 records with long titles and spaced bodies,
\* the oldest one short; 34 records whose 25 newest fragments have 12000
\* characters together
AnalyzeListings ==
    { Plain(0, {}),
      Plain(10, {2, 5, 9}),
      Listing(30, {}, [i \in 1..30 |-> IF i = 1 THEN ShortTitle ELSE LongTitle],
                      [i \in 1..30 |-> IF i = 1 THEN NullBody ELSE SpacedBody]),
      Listing(34, {}, [i \in 1..34 |-> Title251], [i \in 1..34 |-> DenseBody]) }

InitAnalyze ==
    /\ issues = {}
    /\ scans = {}
    /\ scan = [p \in Procs |-> Idle]
    /\ analyze = NoAnalyze
    /\ \E l \in AnalyzeListings :
          upstream = [r \in Repos |-> IF r = "octo/app" THEN l ELSE Plain(2, {1})]
    /\ clock = Epoch
    /\ used = [scans |-> 0, analyzes |-> 0, env |-> 0]

\* one /scan at a time, /analyze at any time, new issues upstream
NextAnalyze ==
    \/ \E r \in Repos : ScanStart(1, r)
    \/ FetchOk(1)
    \/ FetchFailed(1, 500)
    \/ UpstreamAdd("octo/app", 2)
    \/ \E r \in Repos : AnalyzeStart(r)
    \/ AnalyzeOk
    \/ AnalyzeFailed

SpecAnalyze == InitAnalyze /\ [][NextAnalyze]_vars

\* the listings of the behaviours with two /scan invocations in flight: the
\* first repository has one page, three pages or a full first page with a pull
\* request, the second one two pages
InitConc ==
    /\ issues = {}
    /\ scans = {}
    /\ scan = [p \in Procs |-> Idle]
    /\ analyze = NoAnalyze
    /\ \E l \in {Plain(10, {2, 5, 9}), Plain(250, {}), Plain(150, {120})} :
          upstream = [r \in Repos |-> IF r = "octo/app" THEN l ELSE Plain(130, {3})]
    /\ clock = Epoch
    /\ used = [scans |-> 0, analyzes |-> 0, env |-> 0]

\* /scan invocations that overlap: each response is handled as one step, in
\* any order across the invocations, against a static upstream
NextConc ==
    \/ \E p \in Procs, r \in Repos : ScanStart(p, r)
    \/ \E p \in Procs : FetchOk(p)
    \/ \E p \in Procs : FetchNotFound(p)
    \/ \E p \in Procs : FetchFailed(p, 500)

SpecConc == InitConc /\ [][NextConc]_vars

\* the behaviours with issues closed upstream: the first repository lists 10
\* records with pull requests, or 4 issues
InitClose ==
    /\ issues = {}
    /\ scans = {}
    /\ scan = [p \in Procs |-> Idle]
    /\ analyze = NoAnalyze
    /\ \E l \in {Plain(10, {2, 5, 9}), Plain(4, {})} :
          upstream = [r \in Repos |-> IF r = "octo/app" THEN l ELSE Plain(2, {1})]
    /\ clock = Epoch
    /\ used = [scans |-> 0, analyzes |-> 0, env |-> 0]

\* one /scan at a time, /analyze at any time, issues closed or edited upstream
NextClose ==
    \/ \E r \in Repos : ScanStart(1, r)
    \/ FetchOk(1)
    \/ FetchNotFound(1)
    \/ FetchFailed(1, 500)
    \/ \E r \in Repos : UpstreamClose(r, Len(upstream[r]))
    \/ UpstreamEdit("octo/app", 1)
    \/ \E r \in Repos : AnalyzeStart(r)
    \/ AnalyzeOk
    \/ AnalyzeFailed

SpecClose == InitClose /\ [][NextClose]_vars

\* ------------------------------------------------------------ steps

\* slot p received the response of its page request in this step
Responded(p) == scan[p].pc = "fetch" /\ scan'[p] # scan[p]

\* the invocation of slot p ended in this step with the http status code
Completed(p, code) ==
    scan[p].pc = "fetch" /\ scan'[p].pc = "done" /\ scan'[p].res.code = code

\* the invocation of slot p has ended with the http status code
Ended(p, code) == scan[p].pc = "done" /\ scan[p].res.code = code

\* the true issues the open listing of r holds
TrueIssues(r) ==
    {IdOf(r, upstream[r][i].number) :
        i \in {j \in 1..Len(upstream[r]) :
                  upstream[r][j].open /\ ~upstream[r][j].pull_request}}

\* the ids stored for r
StoredIds(r) == {x.id : x \in RowsOf(issues, r)}

\* ------------------------------------------------------------ C1

\* C1: a first scan on an empty cache against a static upstream whose open
\* listing holds at most 1000 records, pull requests among them or not, ends
\* with every true issue of the listing stored exactly once and with status
\* first_scan.
C1_AllStored ==
    \A p \in Procs :
        (/\ Ended(p, 200)
         /\ scan[p].scanRow = <<>>
         /\ scan[p].cached = {}
         /\ used.env = 0
         /\ Len(upstream[scan[p].repo]) <= MAX_PAGES * PER_PAGE)
        => /\ scan[p].res.status = "first_scan"
           /\ StoredIds(scan[p].repo) = TrueIssues(scan[p].repo)
           /\ CountIssues(issues, scan[p].repo) = Cardinality(TrueIssues(scan[p].repo))

\* ------------------------------------------------------------ C2

\* C2: in one scan invocation at most MAX_PAGES page requests are sent, for
\* the pages 1..MAX_PAGES in order, and at most MAX_PAGES * PER_PAGE issues are
\* written, whatever the upstream answers; a first scan of a static listing of
\* 1500 open issues sends exactly MAX_PAGES requests.
C2_PageCap ==
    \A p \in Procs :
        /\ scan[p].requests <= MAX_PAGES
        /\ scan[p].pc = "fetch" => scan[p].page = scan[p].requests
        /\ scan[p].newIssues <= MAX_PAGES * PER_PAGE
        /\ Cardinality(scan[p].upserted) <= MAX_PAGES * PER_PAGE
        /\ (/\ Ended(p, 200)
            /\ scan[p].scanRow = <<>>
            /\ used.env = 0
            /\ Cardinality(TrueIssues(scan[p].repo)) = 1500
            /\ Len(upstream[scan[p].repo]) = 1500)
           => scan[p].requests = MAX_PAGES /\ scan[p].newIssues = MAX_PAGES * PER_PAGE

\* a scan of the listing of 1500 issues has ended after 10 page requests and
\* 1000 stored rows
C2_Witness ==
    \E p \in Procs :
        /\ Ended(p, 200)
        /\ Len(upstream[scan[p].repo]) >= 1500
        /\ scan[p].requests = 10
        /\ CountIssues(issues, scan[p].repo) = 1000

\* ------------------------------------------------------------ C3

\* the records the upstream lists for a request with since = t
ListedSince(r, t) ==
    {i \in 1..Len(upstream[r]) : upstream[r][i].open /\ upstream[r][i].updated_at >= t}

\* slot p is about to be answered its first page, on a repository scanned
\* before, and what the upstream lists since the last scan is exactly k issues
\* created after that scan, none of them a pull request, 1 <= k < PER_PAGE
IncrementalCase(p, k) ==
    /\ scan[p].pc = "fetch"
    /\ scan[p].scanRow # <<>>
    /\ scan[p].requests = 1
    /\ k = Cardinality(ListedSince(scan[p].repo, scan[p].scanRow[1].last_scanned_at))
    /\ 1 <= k /\ k < PER_PAGE
    /\ \A i \in ListedSince(scan[p].repo, scan[p].scanRow[1].last_scanned_at) :
          /\ ~upstream[scan[p].repo][i].pull_request
          /\ upstream[scan[p].repo][i].created_at > scan[p].scanRow[1].last_scanned_at

\* C3: a scan of a repository that has a ScanState, run when exactly k new
\* issues (1 <= k < 100) were created since the last scan, answers with
\* new_fetched = k and status "updated", and the number of stored issues of the
\* repository grows by exactly k.
C3_Incremental ==
    [][\A p \in Procs : \A k \in 1..(PER_PAGE - 1) :
          (IncrementalCase(p, k) /\ Completed(p, 200))
          => /\ scan'[p].res.new_fetched = k
             /\ scan'[p].res.status = "updated"
             /\ scan'[p].requests = 1
             /\ CountIssues(issues', scan[p].repo) = CountIssues(issues, scan[p].repo) + k
             /\ scan'[p].res.issues_fetched = CountIssues(issues, scan[p].repo) + k]_vars

\* an incremental scan has answered "updated" with the 5 issues added since the
\* last scan
C3_Witness ==
    \E p \in Procs :
        /\ Ended(p, 200)
        /\ scan[p].scanRow # <<>>
        /\ scan[p].res.new_fetched = 5
        /\ scan[p].res.status = "updated"
        /\ Cardinality(scan[p].upserted \ scan[p].cached) = 5
        /\ Cardinality(ListedSince(scan[p].repo, scan[p].scanRow[1].last_scanned_at)) = 5

\* ------------------------------------------------------------ C4

\* C4: every scan that ends with 200 has written the ScanState of its
\* repository in that step, also when it fetched no issue: the row carries the
\* answered last_scanned_at and total_issues, its last_scanned_at is later than
\* the one stored before, and a scan that fetched nothing on a repository with
\* a ScanState answers "no_changes".
C4_ScanStateWritten ==
    [][\A p \in Procs :
          Completed(p, 200)
          => /\ RowsOf(scans', scan[p].repo) =
                  {[repo |-> scan[p].repo,
                    last_scanned_at |-> scan'[p].res.last_scanned_at,
                    total_issues |-> scan'[p].res.issues_fetched]}
             /\ \A x \in RowsOf(scans, scan[p].repo) :
                    scan'[p].res.last_scanned_at > x.last_scanned_at
             /\ scan[p].scanRow # <<>>
                    => scan'[p].res.last_scanned_at > scan[p].scanRow[1].last_scanned_at
             /\ (scan'[p].res.new_fetched = 0 /\ scan[p].scanRow # <<>>)
                    => scan'[p].res.status = "no_changes"
             /\ RowsOf(scans', scan[p].repo) # RowsOf(scans, scan[p].repo)]_vars

\* a scan that fetched nothing has ended with "no_changes" and a ScanState whose
\* last_scanned_at is later than the one it read at its start
C4_Witness ==
    \E p \in Procs :
        /\ Ended(p, 200)
        /\ scan[p].res.new_fetched = 0
        /\ scan[p].res.status = "no_changes"
        /\ \E x \in RowsOf(scans, scan[p].repo) :
              /\ x.last_scanned_at = scan[p].res.last_scanned_at
              /\ x.last_scanned_at > scan[p].scanRow[1].last_scanned_at

\* ------------------------------------------------------------ C5

\* the step is the answer 200 to the page request of slot p
Answered200(p) ==
    /\ Responded(p)
    /\ scan'[p].pc = "fetch" \/ scan'[p].res.code = 200

\* the page the upstream holds for the pending request of slot p
PendingPage(p) == ApiPage(upstream, scan[p].repo, scan[p].sinceParam, scan[p].page)

\* the ids of the records of a page that are issues, and of those that are
\* pull requests
IssueIds(data) == {data[i].id : i \in {j \in 1..Len(data) : ~data[j].pull_request}}
PullIds(data) == {data[i].id : i \in {j \in 1..Len(data) : data[j].pull_request}}

\* no stored row is a pull request of the upstream
NoPullStored ==
    \A x \in issues : ~upstream[x.repo][x.number].pull_request

\* C5: no pull request is ever stored; a page of n records of which p are pull
\* requests upserts exactly the n - p others, and counts n - p.
C5_NoPullRequests ==
    /\ []NoPullStored
    /\ [][\A p \in Procs :
             Answered200(p)
             => /\ scan'[p].upserted = scan[p].upserted \cup IssueIds(PendingPage(p))
                /\ scan'[p].newIssues = scan[p].newIssues + Len(PendingPage(p))
                                          - Cardinality(PullIds(PendingPage(p)))
                /\ StoredIds(scan[p].repo)' = StoredIds(scan[p].repo) \cup IssueIds(PendingPage(p))
                /\ PullIds(PendingPage(p)) \cap StoredIds(scan[p].repo)' = {}]_vars

\* the scan of the listing of 10 records, 3 of them pull requests, has ended
\* with 7 rows
C5_Witness ==
    \E p \in Procs :
        /\ Ended(p, 200)
        /\ Len(upstream[scan[p].repo]) = 10
        /\ Cardinality({i \in 1..10 : upstream[scan[p].repo][i].pull_request}) = 3
        /\ scan[p].res.new_fetched = 7
        /\ CountIssues(issues, scan[p].repo) = 7

\* ------------------------------------------------------------ C6

\* the rows a page upserts
PageRows(p) ==
    {IssueRow(scan[p].repo, PendingPage(p)[i]) :
        i \in {j \in 1..Len(PendingPage(p)) : ~PendingPage(p)[j].pull_request}}

\* one row per (repo, id)
KeyUnique == Cardinality({Key(x) : x \in issues}) = Cardinality(issues)

\* upserting a row of the pending page a second time changes nothing, and the
\* first time adds a row only if the key was absent
UpsertTwice ==
    \A p \in Procs :
        scan[p].pc = "fetch"
        => \A rows \in {PageRows(p)} : \A ids \in {StoredIds(scan[p].repo)} :
           \A n \in {Cardinality(issues)} : \A row \in rows :
           \A once \in {InsertOrReplace(issues, row)} :
              /\ InsertOrReplace(once, row) = once
              /\ row \in once
              /\ Cardinality(once) = n + (IF row.id \in ids THEN 0 ELSE 1)

\* table new is table old after the upsert of rows: the rows are in it under
\* their keys, the rows of old under other keys are in it as they were, and
\* nothing else is
Upserted(old, new, rows) ==
    \A keys \in {{Key(y) : y \in rows}} :
        /\ rows \subseteq new
        /\ {x \in new : Key(x) \notin keys} = {x \in old : Key(x) \notin keys}
        /\ {Key(x) : x \in new} = {Key(x) : x \in old} \cup keys
        /\ Cardinality(new) = Cardinality(old) + Cardinality(keys \ {Key(x) : x \in old})

\* C6: the Issue Store holds one row per (repo, id); upserting a row twice
\* leaves what upserting it once leaves; a page's upsert leaves exactly the
\* page's rows under their keys, overwriting the rows that had those keys, adds
\* a row only for a key that was absent, and leaves every other row as it was.
C6_Upsert ==
    /\ [](KeyUnique /\ UpsertTwice)
    /\ [][\A p \in Procs :
             Answered200(p) => \A rows \in {PageRows(p)} : Upserted(issues, issues', rows)]_vars

\* a scan has upserted an issue that was cached at its start, and the stored row
\* carries the title edited upstream
C6_Witness ==
    \E p \in Procs :
        /\ Ended(p, 200)
        /\ \E x \in issues :
              /\ x.repo = scan[p].repo
              /\ x.id \in scan[p].upserted \cap scan[p].cached
              /\ x.title = EditedTitle
        /\ CountIssues(issues, scan[p].repo) = Cardinality(scan[p].cached)

\* ------------------------------------------------------------ C7

\* the fragments of the rows, in the order of the rows
Fragments(rows) == [i \in 1..Len(rows) |-> IssueText(rows[i])]

\* the first m fragments one after the other, and their length
RECURSIVE Concat(_, _)
Concat(frags, m) == IF m = 0 THEN <<>> ELSE Concat(frags, m - 1) \o frags[m]

RECURSIVE TotalLen(_, _)
TotalLen(frags, m) == IF m = 0 THEN 0 ELSE TotalLen(frags, m - 1) + Len(frags[m])

\* the length of the longest prefix of the fragments whose total length is
\* within the budget
FittingPrefix(frags) == Max({m \in 0..Len(frags) : TotalLen(frags, m) <= MAX_CHARS})

\* rows lists number, title and body of every row of S once, by falling
\* created_at
IsDescListing(rows, S) ==
    /\ Len(rows) = Cardinality(S)
    /\ {rows[i].number : i \in 1..Len(rows)} = {x.number : x \in S}
    /\ \A i \in 1..Len(rows) : \E x \in S :
          /\ x.number = rows[i].number /\ x.title = rows[i].title /\ x.body = rows[i].body
          /\ \A j \in (i + 1)..Len(rows) : \A y \in S :
                y.number = rows[j].number => x.created_at >= y.created_at

\* C7: /analyze on a repository with cached issues sends a context of at most
\* MAX_CHARS characters that is the longest prefix, in the order of falling
\* created_at, of the whole fragments of the cached issues whose total length
\* is within MAX_CHARS: no fragment is cut, none after the first that does not
\* fit is included, and all are included when they fit together.
C7_Context ==
    /\ [](analyze.llmCalls > 0
            => \A frags \in {Fragments(analyze.rows)} : \A m \in {FittingPrefix(frags)} :
                  /\ Len(analyze.context) <= MAX_CHARS
                  /\ analyze.context = Concat(frags, m)
                  /\ m < Len(frags) => TotalLen(frags, m + 1) > MAX_CHARS
                  /\ TotalLen(frags, Len(frags)) <= MAX_CHARS
                        => analyze.context = Concat(frags, Len(frags)))
    /\ [][used'.analyzes # used.analyzes
            => /\ RowsOf(issues, analyze'.repo) # {} <=> analyze'.llmCalls > 0
               /\ analyze'.llmCalls > 0
                     => IsDescListing(analyze'.rows, RowsOf(issues, analyze'.repo))]_vars

\* the context of 30 cached issues holds the 25 newest fragments; the next one
\* did not fit and the oldest, which would have fitted, is not in it
C7_Witness ==
    /\ analyze.llmCalls > 0
    /\ Len(analyze.rows) = 30
    /\ FittingPrefix(Fragments(analyze.rows)) = 25
    /\ Len(analyze.context) = 11646
    /\ Len(analyze.context) + Len(IssueText(analyze.rows[30])) <= MAX_CHARS

\* ------------------------------------------------------------ C8

\* slot p takes up a request in this step
Started(p) == scan[p].pc # "fetch" /\ scan'[p].pc = "fetch"

\* the claim as written: a scan that has ended with 404 has left the cache of
\* its repository and the ScanState as they were at its start
C8_Original ==
    \A p \in Procs :
        Ended(p, 404)
        => /\ StoredIds(scan[p].repo) = scan[p].cached
           /\ GetScanState(scans, scan[p].repo) = scan[p].scanRow

\* C8 (amended): a scan whose first page request is answered 404 leaves both
\* tables as they were at its start; a scan answered 404 at a later page has
\* written the pages before it and nothing else: no scan that ends with 404
\* writes a ScanState, and the step that ends it changes no row.
C8_NotFound ==
    /\ [](\A p \in Procs :
            Ended(p, 404)
            => /\ GetScanState(scans, scan[p].repo) = scan[p].scanRow
               /\ StoredIds(scan[p].repo) = scan[p].cached \cup scan[p].upserted
               /\ scan[p].requests = 1
                     => scan[p].upserted = {} /\ StoredIds(scan[p].repo) = scan[p].cached)
    /\ [][\A p \in Procs :
             (Started(p) \/ Completed(p, 404)) => issues' = issues /\ scans' = scans]_vars

\* a scan of a repository with cached issues and a ScanState has ended with 404
\* at its first page request
C8_Witness ==
    \E p \in Procs :
        /\ Ended(p, 404)
        /\ scan[p].requests = 1
        /\ scan[p].cached # {}
        /\ scan[p].scanRow # <<>>
        /\ StoredIds(scan[p].repo) = scan[p].cached

\* ------------------------------------------------------------ C9

\* C9: an upstream answer other than 200 and 404 ends the scan with the failure
\* response, and only such an answer does; the step changes no row, and no step
\* of a scan that does not end in 200 changes the ScanState, so the ScanState of
\* the repository is the one read at the start and the pages upserted before the
\* failure are still stored.
C9_TransportFailure ==
    /\ [](\A p \in Procs :
            /\ scan[p].pc = "done"
                  => (scan[p].res.code = 500 <=> scan[p].res.answered \notin {200, 404})
            /\ Ended(p, 500)
                  => /\ GetScanState(scans, scan[p].repo) = scan[p].scanRow
                     /\ scan[p].upserted \subseteq StoredIds(scan[p].repo))
    /\ [][\A p \in Procs :
             /\ Completed(p, 500) => issues' = issues /\ scans' = scans
             /\ (Started(p) \/ (Responded(p) /\ ~Completed(p, 200))) => scans' = scans]_vars

\* a scan has ended with the failure response after it upserted a page, on a
\* repository that had a ScanState
C9_Witness ==
    \E p \in Procs :
        /\ Ended(p, 500)
        /\ scan[p].res.answered = 403
        /\ scan[p].requests = 2
        /\ scan[p].upserted # {}
        /\ scan[p].upserted \subseteq StoredIds(scan[p].repo)
        /\ scan[p].scanRow # <<>>

\* ------------------------------------------------------------ C10

\* no upstream record was edited after its creation
NeverEdited ==
    \A r \in Repos : \A i \in 1..Len(upstream[r]) :
        upstream[r][i].updated_at = upstream[r][i].created_at

\* C10: a scan that ended with 200 answers "first_scan" exactly when it read no
\* ScanState at its start; otherwise "updated" exactly when it wrote an issue
\* that was not cached when it started, and "no_changes" otherwise.  (Stated
\* for the behaviours in which no upstream issue is edited, where the issues a
\* scan is sent do not depend on what since compares.)
C10_Status ==
    \A p \in Procs :
        (Ended(p, 200) /\ NeverEdited)
        => scan[p].res.status =
              IF scan[p].scanRow = <<>> THEN "first_scan"
              ELSE IF scan[p].upserted \ scan[p].cached # {} THEN "updated"
              ELSE "no_changes"

\* ------------------------------------------------------------ C11

\* the step takes up a request to /analyze
AnalyzeStarted == used'.analyzes # used.analyzes

\* C11: /analyze for a repository without cached rows answers 404 at once and
\* requests no completion; /analyze for a repository with a cached row requests
\* one and never answers 404.
C11_NotFoundCache ==
    /\ [](/\ analyze.code = 404 => analyze.pc = "done" /\ analyze.llmCalls = 0
          /\ analyze.llmCalls > 0 => analyze.code \in {0, 200, 500} /\ analyze.rows # <<>>
          /\ analyze.pc = "llm" => analyze.llmCalls = 1 /\ analyze.code = 0)
    /\ [][AnalyzeStarted
            => IF RowsOf(issues, analyze'.repo) = {}
               THEN analyze'.pc = "done" /\ analyze'.code = 404 /\ analyze'.llmCalls = 0
               ELSE analyze'.pc = "llm" /\ analyze'.code # 404 /\ analyze'.llmCalls = 1]_vars

\* /analyze has answered 404 for a repository without rows while the other
\* repository has cached rows
C11_Witness ==
    /\ analyze.pc = "done"
    /\ analyze.code = 404
    /\ analyze.llmCalls = 0
    /\ RowsOf(issues, analyze.repo) = {}
    /\ issues # {}

\* ------------------------------------------------------------ C12

\* a scan that runs alone and is answered 200 throughout, from the request for
\* page s.page on: the table issues it leaves, its response, its page requests
RECURSIVE SoloLoop(_, _, _, _)
SoloLoop(s, tbl, stored, up) ==
    LET b == PageBody(s, tbl, ApiPage(up, s.repo, s.sinceParam, s.page))
    IN  IF LoopCondition(b.hasMore, b.page)
        THEN SoloLoop([s EXCEPT !.newIssues = b.newIssues, !.hasMore = b.hasMore,
                                !.page = b.page, !.upserted = b.upserted,
                                !.requests = @ + 1],
                      b.issues, stored, up)
        ELSE [issues |-> b.issues, res |-> Finalize(s, b, stored, 0).res,
              requests |-> s.requests]

SoloScan(tbl, stored, up, r) == SoloLoop(Baseline(tbl, stored, r), tbl, stored, up)

\* exactly two invocations have started, one per slot, so the second started
\* while the first was awaiting a page
TwoOverlapped ==
    /\ used.scans = 2
    /\ scan[1].pc # "idle"
    /\ scan[2].pc # "idle"

\* the response of a scan but for its time stamp
Outcome(res) == [code |-> res.code, status |-> res.status,
                 new_fetched |-> res.new_fetched, issues_fetched |-> res.issues_fetched]

\* C12: a step of a scan of repository A changes no issue row and no ScanState
\* of another repository; what it does to the rows and the ScanState of A and
\* what it answers is what it does on the tables without the rows of the other
\* repositories; and a scan of A that overlapped a scan of B # A leaves the rows
\* and gives the response (but for the time stamp) of the scan of A run alone.
C12_NoInterference ==
    /\ [][\A p \in Procs :
             (Started(p) \/ Responded(p))
             => \A B \in Repos \ {scan'[p].repo} :
                   /\ RowsOf(issues', B) = RowsOf(issues, B)
                   /\ RowsOf(scans', B) = RowsOf(scans, B)]_vars
    /\ [][\A p \in Procs :
             /\ Started(p)
                  => scan'[p] = Baseline(RowsOf(issues, scan'[p].repo),
                                         RowsOf(scans, scan'[p].repo), scan'[p].repo)
             /\ Answered200(p)
                  => \A b \in {PageBody(scan[p], RowsOf(issues, scan[p].repo), PendingPage(p))} :
                        /\ RowsOf(issues', scan[p].repo) = b.issues
                        /\ scan'[p].newIssues = b.newIssues
                        /\ scan'[p].pc = "fetch" <=> LoopCondition(b.hasMore, b.page)
                        /\ Completed(p, 200)
                              => \A f \in {Finalize(scan[p], b, RowsOf(scans, scan[p].repo), clock')} :
                                    /\ scan'[p].res = f.res
                                    /\ RowsOf(scans', scan[p].repo) = f.scans]_vars
    /\ [](\A p \in Procs :
            (TwoOverlapped /\ scan[1].repo # scan[2].repo /\ Ended(p, 200))
            => \A solo \in {SoloScan({}, {}, upstream, scan[p].repo)} :
                  /\ RowsOf(issues, scan[p].repo) = solo.issues
                  /\ Outcome(scan[p].res) = Outcome(solo.res)
                  /\ scan[p].requests = solo.requests
                  /\ \A x \in RowsOf(scans, scan[p].repo) :
                        x.total_issues = solo.res.issues_fetched)

\* two scans of different repositories have ended with 200; the second one
\* started during the first and ended before it
C12_Witness ==
    /\ TwoOverlapped
    /\ scan[1].repo # scan[2].repo
    /\ Ended(1, 200) /\ Ended(2, 200)
    /\ scan[1].requests = 3
    /\ scan[2].requests = 2
    /\ scan[2].res.last_scanned_at < scan[1].res.last_scanned_at
    /\ issues # {}

\* ------------------------------------------------------------ C13

\* C13: a scan that ends with 200 writes as total_issues, and answers as
\* issues_fetched, the number of rows stored for its repository at that moment:
\* the rows cached at its start and the rows it added, not the tally new_fetched.
C13_TotalIsCount ==
    [][\A p \in Procs :
          Completed(p, 200)
          => /\ scan'[p].res.issues_fetched = Cardinality({x \in issues' : x.repo = scan[p].repo})
             /\ scan'[p].res.issues_fetched = Cardinality(scan[p].cached \cup scan'[p].upserted)
             /\ \E x \in scans' :
                   /\ x.repo = scan[p].repo
                   /\ x.total_issues = Cardinality({y \in issues' : y.repo = scan[p].repo})
             /\ scan'[p].res.new_fetched = scan'[p].newIssues]_vars

\* an incremental scan has answered a total that is greater than its tally: it
\* added 5 issues to a cache that held issues
C13_Witness ==
    \E p \in Procs :
        /\ Ended(p, 200)
        /\ scan[p].cached # {}
        /\ scan[p].res.new_fetched = 5
        /\ scan[p].res.issues_fetched = Cardinality(scan[p].cached) + 5
        /\ scan[p].res.issues_fetched = CountIssues(issues, scan[p].repo)
        /\ \E x \in RowsOf(scans, scan[p].repo) : x.total_issues = scan[p].res.issues_fetched

\* ------------------------------------------------------------ C14

\* the stop conditions of the claim at the response for the pending page of
\* slot p: no issue after the filter, fewer records than a full page, or
\* MAX_PAGES pages requested
StopConditions(p) ==
    \/ IssueIds(PendingPage(p)) = {}
    \/ Len(PendingPage(p)) < PER_PAGE
    \/ scan[p].requests >= MAX_PAGES

\* C14: after a page answered 200 the scan requests the next page if and only
\* if none of the stop conditions holds; a page of 100 records that holds a true
\* issue is followed by the next request while fewer than MAX_PAGES pages were
\* requested.
C14_Continuation ==
    [][\A p \in Procs :
          Answered200(p) => (scan'[p].pc = "fetch" <=> ~StopConditions(p))]_vars

\* ------------------------------------------------------------ C15

\* C15: repeated scans of an upstream that does not change reach completeness.
\* An incremental scan that is sent nothing leaves the tables as they were but
\* for a later last_scanned_at, and so does every scan after it; hence, if the
\* scans converge, the cache holds every open true issue of the upstream when
\* an incremental scan of a never changed upstream ends with nothing fetched.
C15_Converges ==
    \A p \in Procs :
        (/\ Ended(p, 200)
         /\ used.env = 0
         /\ scan[p].scanRow # <<>>
         /\ scan[p].res.new_fetched = 0)
        => TrueIssues(scan[p].repo) \subseteq StoredIds(scan[p].repo)

\* ------------------------------------------------------------ C16

\* C16: a scan that read a ScanState sends since = last_scanned_at with every
\* page request and is sent no issue that was in the cache when it started,
\* whatever scans ran before it.  (Stated for the behaviours in which no
\* upstream issue is edited.)
C16_NoRetransfer ==
    \A p \in Procs :
        (scan[p].pc # "idle" /\ scan[p].scanRow # <<>> /\ NeverEdited)
        => /\ scan[p].sinceParam = <<scan[p].scanRow[1].last_scanned_at>>
           /\ scan[p].upserted \cap scan[p].cached = {}

\* ------------------------------------------------------------ C17

\* the ids of the issues on the pages 1..n of the listing of slot p's request
IssuesOfPages(p, n) ==
    UNION {IssueIds(ApiPage(upstream, scan[p].repo, scan[p].sinceParam, k)) : k \in 1..n}

\* C17: a scan has one page request pending at a time, the one for page N + 1
\* after N answered pages, and the issues of every answered page are stored
\* by then; the step that handles a response stores the issues of that one
\* page, all of them, and sends at most one request; a failure changes nothing,
\* so it finds every answered page stored.
C17_WriteThrough ==
    /\ [](\A p \in Procs :
            /\ scan[p].pc = "fetch" => scan[p].page = scan[p].requests
            /\ scan[p].pc # "idle" => scan[p].upserted \subseteq StoredIds(scan[p].repo)
            /\ (scan[p].pc # "idle" /\ used.env = 0)
                  => /\ IssuesOfPages(p, scan[p].page - 1) = scan[p].upserted
                     /\ IssuesOfPages(p, scan[p].page - 1) \subseteq StoredIds(scan[p].repo)
                     /\ scan[p].newIssues = Cardinality(scan[p].upserted))
    /\ [][\A p \in Procs :
             /\ Answered200(p)
                  => /\ scan'[p].requests \in {scan[p].requests, scan[p].requests + 1}
                     /\ IssueIds(PendingPage(p)) \subseteq StoredIds(scan[p].repo)'
                     /\ StoredIds(scan[p].repo)' \ StoredIds(scan[p].repo) \subseteq IssueIds(PendingPage(p))
                     /\ Cardinality(IssueIds(PendingPage(p))) <= PER_PAGE
                     /\ scan'[p].pc = "fetch" => scan'[p].page = scan[p].page + 1
             /\ (Responded(p) /\ ~Answered200(p)) => issues' = issues]_vars

\* the request for page 3 has failed: the 200 issues of the pages 1 and 2 are
\* stored and no ScanState was written
C17_Witness ==
    \E p \in Procs :
        /\ Ended(p, 500)
        /\ used.env = 0
        /\ scan[p].requests = 3
        /\ Cardinality(scan[p].upserted) = 200
        /\ scan[p].upserted = IssuesOfPages(p, 2)
        /\ scan[p].upserted \subseteq StoredIds(scan[p].repo)
        /\ RowsOf(scans, scan[p].repo) = {}

\* ------------------------------------------------------------ C18

\* the rows of repository r after two scans of it run one after the other,
\* from empty tables, both answered 200 throughout
TwoInSequence(r) ==
    LET first == SoloScan({}, {}, upstream, r)
    IN  SoloScan(first.issues,
                 PutScanState({}, r, Epoch + 1, first.res.issues_fetched),
                 upstream, r).issues

\* C18: against a static upstream, the rows stored for a repository are rows
\* that one scan of it alone stores, and are exactly those once a scan of it
\* has ended with 200, however the invocations overlap; two overlapping scans
\* of one repository that both ended with 200 leave the rows that the two leave
\* when run one after the other, though both answered as first scans with the
\* same tally.
C18_SameRepo ==
    \A r \in Repos : \A solo \in {SoloScan({}, {}, upstream, r)} :
        /\ RowsOf(issues, r) \subseteq solo.issues
        /\ RowsOf(scans, r) # {} => RowsOf(issues, r) = solo.issues
        /\ (/\ TwoOverlapped
            /\ scan[1].repo = r /\ scan[2].repo = r
            /\ Ended(1, 200) /\ Ended(2, 200))
           => /\ RowsOf(issues, r) = TwoInSequence(r)
              /\ Cardinality(RowsOf(issues, r)) = Cardinality(StoredIds(r))
              /\ scan[1].res.status = "first_scan" /\ scan[2].res.status = "first_scan"
              /\ scan[1].res.new_fetched = scan[2].res.new_fetched

\* two scans of the repository of 250 issues overlapped, each was answered
\* three pages, both ended as first scans with new_fetched = 250, and 250 rows
\* are stored
C18_Witness ==
    /\ TwoOverlapped
    /\ scan[1].repo = scan[2].repo
    /\ Ended(1, 200) /\ Ended(2, 200)
    /\ scan[1].requests = 3 /\ scan[2].requests = 3
    /\ scan[1].res.new_fetched = 250 /\ scan[2].res.new_fetched = 250
    /\ scan[2].res.status = "first_scan"
    /\ CountIssues(issues, scan[1].repo) = 250

\* ------------------------------------------------------------ C19

\* no scan of repository r is awaiting a page
NoScanInProgress(r) == \A p \in Procs : ~(scan[p].pc = "fetch" /\ scan[p].repo = r)

\* the ScanState of r exists and its total_issues is the number of rows of r
TotalIsCurrent(r) ==
    /\ RowsOf(scans, r) # {}
    /\ \A x \in RowsOf(scans, r) : x.total_issues = Cardinality(StoredIds(r))

StoredKeys == {Key(x) : x \in issues}

\* C20: no step removes a key from the Issue Store, so the number of rows of a
\* repository never falls; a cached issue stays cached when it is closed
\* upstream and is among the rows of every later /analyze; the steps of
\* /analyze change no row of issues or repo_scans.
C20_CacheGrows ==
    [][/\ StoredKeys \subseteq StoredKeys'
       /\ \A r \in Repos : CountIssues(issues, r) <= CountIssues(issues', r)
       /\ (AnalyzeStarted \/ analyze' # analyze) => issues' = issues /\ scans' = scans
       /\ (AnalyzeStarted /\ analyze'.llmCalls > 0)
             => /\ \A x \in RowsOf(issues, analyze'.repo) :
                      \E i \in 1..Len(analyze'.rows) : analyze'.rows[i].number = x.number
                /\ TotalLen(Fragments(analyze'.rows), Len(analyze'.rows)) <= MAX_CHARS
                      => analyze'.context = Concat(Fragments(analyze'.rows), Len(analyze'.rows))]_vars

\* an issue was closed upstream after it was cached; a scan has ended with 200
\* since, and the issue is still stored and among the rows of the /analyze
\* request that followed
C20_Witness ==
    \E r \in Repos : \E n \in 1..Len(upstream[r]) :
        /\ ~upstream[r][n].open
        /\ Ended(1, 200) /\ scan[1].repo = r
        /\ scan[1].res.last_scanned_at > upstream[r][n].updated_at
        /\ IdOf(r, n) \in scan[1].cached
        /\ IdOf(r, n) \in StoredIds(r)
        /\ analyze.llmCalls > 0 /\ analyze.repo = r
        /\ \E i \in 1..Len(analyze.rows) : analyze.rows[i].number = n
        /\ analyze.context # <<>>

====
